---- MODULE Spec2Model ----
(***************************************************************************)
(* Sparse Merkle tree of memoio/smt (smt.go, treehasher.go, mapstore.go).  *)
(*                                                                         *)
(* SHA-256 is idealised as an injective function: the digest of a byte     *)
(* string is the one-element tuple holding that string, so two digests are *)
(* equal exactly when their preimages are.  The path of a key is a string  *)
(* of Depth bits given by a fixed injective table.  The tree depth, 256 in *)
(* the program, is scaled down to Depth.                                   *)
(* The 32-bit reference counter of a SimpleMap entry is scaled down to     *)
(* CountBits bits, the integers of TLC being 32-bit signed.                *)
(***************************************************************************)
EXTENDS Integers, Sequences, FiniteSets, TLC

\* ---- bounds of the model ----
Depth == 3
MaxKey == 3
MaxValue == 2
MaxOps == 4
MaxForRoot == 1
MaxRetract == 2
MaxReads == 1
MaxAllOps == 3
MaxKeyList == 2
CountBits == 16
MaxPuts == 3
MaxBlocks == 2
OpsPerBlock == 3

Keys == 0..MaxKey
\* a value is a non-empty byte string
Values == {<<b>> : b \in 1..MaxValue}

\* ---- smt.go constants ----
right == 1
defaultValue == <<>>

\* Go's nil byte slice / nil error
Nil == <<>>
NoErr == "nil"
InvalidKeyError == "InvalidKeyError"
errKeyAlreadyEmpty == "key already empty"

\* ---- treehasher.go ----
leafPrefix == 0
nodePrefix == 1

digest(data) == <<data>>

\* th.zeroValue: pathSize() zero bytes, the digest of no encoding
placeholder == << <<>> >>

depth == Depth

RECURSIVE Pow2(_)
Pow2(n) == IF n = 0 THEN 1 ELSE 2 * Pow2(n - 1)

\* path(key) = digest(key) read as a bit string, most significant bit first
PathCode(key) == (key * 5 + 3) % Pow2(Depth)
path(key) == [i \in 1..Depth |-> (PathCode(key) \div Pow2(Depth - i)) % 2]

digestLeaf(p, leafData) ==
    LET value == <<leafPrefix, p, leafData>>
    IN  <<digest(value), value>>

\* (path, value hash, payload after the tag)
parseLeaf(data) == <<data[2], data[3], <<data[2], data[3]>>>>

isLeaf(data) == data[1] = leafPrefix

digestNode(leftData, rightData) ==
    LET value == <<nodePrefix, leftData, rightData>>
    IN  <<digest(value), value>>

parseNode(data) == <<data[2], data[3]>>

\* ---- utils (bit helpers) ----
getBitAtFromMSB(p, position) == p[position + 1]

RECURSIVE countCommonPrefixFrom(_, _, _)
countCommonPrefixFrom(a, b, i) ==
    IF i >= Len(a) THEN i
    ELSE IF a[i + 1] = b[i + 1] THEN countCommonPrefixFrom(a, b, i + 1)
    ELSE i
countCommonPrefix(a, b) == countCommonPrefixFrom(a, b, 0)

reverseByteSlices(s) == [i \in 1..Len(s) |-> s[Len(s) + 1 - i]]

\* ---- mapstore.go: SimpleMap, a map from key to (data, count) ----
NewSimpleMap == [x \in {} |-> [data |-> Nil, count |-> 0]]

\* count is a uint32: arithmetic on it wraps
CountModulus == Pow2(CountBits)

SimpleMapHas(sm, key) == key \in DOMAIN sm

\* Get returns [value, err]
SimpleMapGet(sm, key) ==
    IF key \in DOMAIN sm THEN [value |-> sm[key].data, err |-> NoErr]
    ELSE [value |-> Nil, err |-> InvalidKeyError]

\* Put that stores the entry with count 1 whether or not the key is present
SimpleMapPutUncounted(sm, key, value) ==
    [x \in DOMAIN sm \cup {key} |-> IF x = key THEN [data |-> value, count |-> 1] ELSE sm[x]]

SimpleMapPut(sm, key, value) ==
    IF key \in DOMAIN sm
    THEN [sm EXCEPT ![key] = [data |-> value, count |-> (@.count + 1) % CountModulus]]
    ELSE [x \in DOMAIN sm \cup {key} |->
            IF x = key THEN [data |-> value, count |-> 1] ELSE sm[x]]

\* the map after Delete(key) on a present key
SimpleMapDelete(sm, key) ==
    IF (sm[key].count - 1) % CountModulus = 0
    THEN [x \in DOMAIN sm \ {key} |-> sm[x]]
    ELSE [sm EXCEPT ![key] = [data |-> @.data, count |-> (@.count - 1) % CountModulus]]

\* Delete on any key returns [sm, err]: the map after the call, the error
SimpleMapDeleteCall(sm, key) ==
    IF key \in DOMAIN sm THEN [sm |-> SimpleMapDelete(sm, key), err |-> NoErr]
    ELSE [sm |-> sm, err |-> InvalidKeyError]

\* ---- smt.go: the tree is smt == [nodes, values, root] ----
NewSparseMerkleTree == [nodes |-> NewSimpleMap, values |-> NewSimpleMap, root |-> placeholder]

TraversalError(e) ==
    [sideNodes |-> Nil, pathNodes |-> Nil, leafData |-> Nil, siblingData |-> Nil, err |-> e]

\* the end of sideNodesForRoot with the side nodes left in the order of the
\* way down
sideNodesReturnTopFirst(N, sideNodes, pathNodes, currentData, getSiblingData) ==
    IF getSiblingData /\ sideNodes[Len(sideNodes)] \notin DOMAIN N
    THEN TraversalError(InvalidKeyError)
    ELSE [sideNodes |-> sideNodes,
          pathNodes |-> reverseByteSlices(pathNodes),
          leafData |-> currentData,
          siblingData |-> IF getSiblingData THEN N[sideNodes[Len(sideNodes)]].data ELSE Nil,
          err |-> NoErr]

\* the end of sideNodesForRoot: the optional read of the sibling, the reversal
sideNodesReturn(N, sideNodes, pathNodes, currentData, getSiblingData) ==
    IF getSiblingData /\ sideNodes[Len(sideNodes)] \notin DOMAIN N
    THEN TraversalError(InvalidKeyError)
    ELSE [sideNodes |-> reverseByteSlices(sideNodes),
          pathNodes |-> reverseByteSlices(pathNodes),
          leafData |-> currentData,
          siblingData |-> IF getSiblingData THEN N[sideNodes[Len(sideNodes)]].data ELSE Nil,
          err |-> NoErr]

\* the loop of sideNodesForRoot, from level i with the node currentData;
\* sideNodesStep is one round of it, with the two children told apart
RECURSIVE sideNodesLoop(_, _, _, _, _, _, _)
RECURSIVE sideNodesStep(_, _, _, _, _, _, _)
sideNodesStep(N, p, i, nodeHash, sn, pn, getSiblingData) ==
    IF nodeHash = placeholder
    THEN sideNodesReturn(N, sn, pn, Nil, getSiblingData)
    ELSE IF nodeHash \notin DOMAIN N
    THEN TraversalError(InvalidKeyError)
    ELSE IF isLeaf(N[nodeHash].data)
    THEN sideNodesReturn(N, sn, pn, N[nodeHash].data, getSiblingData)
    ELSE sideNodesLoop(N, p, i + 1, N[nodeHash].data, sn, pn, getSiblingData)

sideNodesLoop(N, p, i, currentData, sideNodes, pathNodes, getSiblingData) ==
    IF i >= depth
    THEN sideNodesReturn(N, sideNodes, pathNodes, currentData, getSiblingData)
    ELSE IF getBitAtFromMSB(p, i) = right
    THEN sideNodesStep(N, p, i, parseNode(currentData)[2],
                       Append(sideNodes, parseNode(currentData)[1]),
                       Append(pathNodes, parseNode(currentData)[2]), getSiblingData)
    ELSE sideNodesStep(N, p, i, parseNode(currentData)[1],
                       Append(sideNodes, parseNode(currentData)[2]),
                       Append(pathNodes, parseNode(currentData)[1]), getSiblingData)

sideNodesForRoot(smt, p, root, getSiblingData) ==
    IF root = placeholder
    THEN [sideNodes |-> <<>>, pathNodes |-> <<root>>, leafData |-> Nil,
          siblingData |-> Nil, err |-> NoErr]
    ELSE IF root \notin DOMAIN smt.nodes
    THEN TraversalError(InvalidKeyError)
    ELSE IF isLeaf(smt.nodes[root].data)
    THEN [sideNodes |-> <<>>, pathNodes |-> <<root>>, leafData |-> smt.nodes[root].data,
          siblingData |-> Nil, err |-> NoErr]
    ELSE sideNodesLoop(smt.nodes, p, 0, smt.nodes[root].data, <<>>, <<root>>, getSiblingData)

Found(value) == [value |-> value, err |-> NoErr]

\* GetFromRoot after the traversal t, without the comparison of the leaf's
\* path with the key's
getAtTerminusAnyLeaf(smt, p, t) ==
    IF t.err # NoErr \/ t.leafData = Nil THEN Found(defaultValue)
    ELSE IF digest(parseLeaf(t.leafData)[3]) \notin DOMAIN smt.values
    THEN [value |-> Nil, err |-> InvalidKeyError]
    ELSE Found(smt.values[digest(parseLeaf(t.leafData)[3])].data)

\* GetFromRoot after the traversal t, every error of the traversal passed on
getAtTerminusStrict(smt, p, t) ==
    IF t.err # NoErr THEN [value |-> Nil, err |-> t.err]
    ELSE IF t.leafData = Nil THEN Found(defaultValue)
    ELSE IF parseLeaf(t.leafData)[1] # p THEN Found(defaultValue)
    ELSE IF digest(parseLeaf(t.leafData)[3]) \notin DOMAIN smt.values
    THEN [value |-> Nil, err |-> InvalidKeyError]
    ELSE Found(smt.values[digest(parseLeaf(t.leafData)[3])].data)

\* GetFromRoot after the traversal t
getAtTerminus(smt, p, t) ==
    IF t.err # NoErr
    THEN (IF t.err = InvalidKeyError THEN Found(defaultValue)
          ELSE [value |-> Nil, err |-> t.err])
    ELSE IF t.leafData = Nil THEN Found(defaultValue)
    ELSE IF parseLeaf(t.leafData)[1] # p THEN Found(defaultValue)
    ELSE IF digest(parseLeaf(t.leafData)[3]) \notin DOMAIN smt.values
    THEN [value |-> Nil, err |-> InvalidKeyError]
    ELSE Found(smt.values[digest(parseLeaf(t.leafData)[3])].data)

\* GetFromRoot returns [value, err]
GetFromRoot(smt, key, root) ==
    IF root = placeholder THEN Found(defaultValue)
    ELSE getAtTerminus(smt, path(key), sideNodesForRoot(smt, path(key), root, FALSE))

Get(smt, key) == GetFromRoot(smt, key, smt.root)

\* the loop of deleteWithSideNodes that combines the sibling leaf with every
\* side node, placeholder or not
RECURSIVE deleteLoopNoBubble(_, _, _, _, _, _, _)
deleteLoopNoBubble(N, p, sideNodes, i, currentHash, currentData, nonPlaceholderReached) ==
    IF i >= Len(sideNodes)
    THEN [root |-> currentHash, nodes |-> N, err |-> NoErr]
    ELSE LET sideNode == sideNodes[i + 1]
             first == currentData = Nil
             cd == IF first THEN placeholder ELSE currentData
             dn == IF getBitAtFromMSB(p, Len(sideNodes) - 1 - i) = right
                   THEN digestNode(sideNode, cd)
                   ELSE digestNode(cd, sideNode)
         IN  IF first /\ sideNode \notin DOMAIN N
             THEN [root |-> Nil, nodes |-> N, err |-> InvalidKeyError]
             ELSE IF first /\ isLeaf(N[sideNode].data)
             THEN deleteLoopNoBubble(N, p, sideNodes, i + 1, sideNode, sideNode, FALSE)
             ELSE deleteLoopNoBubble(SimpleMapPut(N, dn[1], dn[2]), p, sideNodes,
                                     i + 1, dn[1], dn[1], TRUE)

\* the loop of deleteWithSideNodes that leaves a sibling leaf where it is, as
\* it leaves a sibling node
RECURSIVE deleteLoopLeafInPlace(_, _, _, _, _, _, _)
deleteLoopLeafInPlace(N, p, sideNodes, i, currentHash, currentData, nonPlaceholderReached) ==
    IF i >= Len(sideNodes)
    THEN [root |-> currentHash, nodes |-> N, err |-> NoErr]
    ELSE LET sideNode == sideNodes[i + 1]
             first == currentData = Nil
             cd == IF first THEN placeholder ELSE currentData
             dn == IF getBitAtFromMSB(p, Len(sideNodes) - 1 - i) = right
                   THEN digestNode(sideNode, cd)
                   ELSE digestNode(cd, sideNode)
         IN  IF first /\ sideNode \notin DOMAIN N
             THEN [root |-> Nil, nodes |-> N, err |-> InvalidKeyError]
             ELSE deleteLoopLeafInPlace(SimpleMapPut(N, dn[1], dn[2]), p, sideNodes,
                                        i + 1, dn[1], dn[1], TRUE)

\* the loop of deleteWithSideNodes over sideNodes[i..]; returns [root, nodes, err],
\* root being currentHash, Nil when no node was made
RECURSIVE deleteLoop(_, _, _, _, _, _, _)
deleteLoop(N, p, sideNodes, i, currentHash, currentData, nonPlaceholderReached) ==
    IF i >= Len(sideNodes)
    THEN [root |-> currentHash, nodes |-> N, err |-> NoErr]
    ELSE LET sideNode == sideNodes[i + 1]
             first == currentData = Nil
             cd == IF first THEN placeholder ELSE currentData
             dn == IF getBitAtFromMSB(p, Len(sideNodes) - 1 - i) = right
                   THEN digestNode(sideNode, cd)
                   ELSE digestNode(cd, sideNode)
         IN  IF first /\ sideNode \notin DOMAIN N
             THEN [root |-> Nil, nodes |-> N, err |-> InvalidKeyError]
             ELSE IF first /\ isLeaf(N[sideNode].data)
             THEN deleteLoop(N, p, sideNodes, i + 1, sideNode, sideNode, nonPlaceholderReached)
             ELSE IF ~first /\ ~nonPlaceholderReached /\ sideNode = placeholder
             THEN deleteLoop(N, p, sideNodes, i + 1, currentHash, cd, nonPlaceholderReached)
             ELSE deleteLoop(SimpleMapPut(N, dn[1], dn[2]), p, sideNodes,
                             i + 1, dn[1], dn[1], TRUE)

\* the end of deleteWithSideNodes: the emptied tree has the placeholder as root
rootOrPlaceholder(d) ==
    IF d.err = NoErr /\ d.root = Nil THEN [d EXCEPT !.root = placeholder] ELSE d

\* deleteWithSideNodes without the comparison of the leaf's path with the key's
deleteWithSideNodesAnyLeaf(smt, p, sideNodes, pathNodes, oldLeafData) ==
    IF pathNodes[1] = placeholder
    THEN [root |-> Nil, nodes |-> smt.nodes, err |-> errKeyAlreadyEmpty]
    ELSE rootOrPlaceholder(deleteLoop(smt.nodes, p, sideNodes, 0, Nil, Nil, FALSE))

\* deleteWithSideNodes without the placeholder for the emptied tree
deleteWithSideNodesNilRoot(smt, p, sideNodes, pathNodes, oldLeafData) ==
    IF pathNodes[1] = placeholder
    THEN [root |-> Nil, nodes |-> smt.nodes, err |-> errKeyAlreadyEmpty]
    ELSE IF p # parseLeaf(oldLeafData)[1]
    THEN [root |-> Nil, nodes |-> smt.nodes, err |-> errKeyAlreadyEmpty]
    ELSE deleteLoop(smt.nodes, p, sideNodes, 0, Nil, Nil, FALSE)

\* returns [root, nodes, err]
deleteWithSideNodes(smt, p, sideNodes, pathNodes, oldLeafData) ==
    IF pathNodes[1] = placeholder
    THEN [root |-> Nil, nodes |-> smt.nodes, err |-> errKeyAlreadyEmpty]
    ELSE IF p # parseLeaf(oldLeafData)[1]
    THEN [root |-> Nil, nodes |-> smt.nodes, err |-> errKeyAlreadyEmpty]
    ELSE rootOrPlaceholder(deleteLoop(smt.nodes, p, sideNodes, 0, Nil, Nil, FALSE))

\* the spine loop of updateWithSideNodes with a placeholder sibling at every
\* level below the side nodes, also where the two leaves do not share the level
RECURSIVE updateLoopFullSpine(_, _, _, _, _, _, _)
updateLoopFullSpine(N, p, sideNodes, commonPrefixCount, i, currentHash, currentData) ==
    IF i >= depth THEN [root |-> currentHash, nodes |-> N]
    ELSE LET absent == i - (depth - Len(sideNodes)) < 0
             sideNode == IF absent THEN placeholder
                         ELSE sideNodes[i - (depth - Len(sideNodes)) + 1]
             dn == IF getBitAtFromMSB(p, depth - 1 - i) = right
                   THEN digestNode(sideNode, currentData)
                   ELSE digestNode(currentData, sideNode)
         IN  IF absent /\ commonPrefixCount = depth
             THEN updateLoopFullSpine(N, p, sideNodes, commonPrefixCount, i + 1,
                                      currentHash, currentData)
             ELSE updateLoopFullSpine(SimpleMapPut(N, dn[1], dn[2]), p, sideNodes,
                                      commonPrefixCount, i + 1, dn[1], dn[1])

\* the spine loop of updateWithSideNodes, for i..depth-1; returns [root, nodes]
RECURSIVE updateLoop(_, _, _, _, _, _, _)
updateLoop(N, p, sideNodes, commonPrefixCount, i, currentHash, currentData) ==
    IF i >= depth THEN [root |-> currentHash, nodes |-> N]
    ELSE LET offsetOfSideNodes == depth - Len(sideNodes)
             absent == i - offsetOfSideNodes < 0
             inject == commonPrefixCount # depth /\ commonPrefixCount > depth - 1 - i
             sideNode == IF absent THEN placeholder
                         ELSE sideNodes[i - offsetOfSideNodes + 1]
             dn == IF getBitAtFromMSB(p, depth - 1 - i) = right
                   THEN digestNode(sideNode, currentData)
                   ELSE digestNode(currentData, sideNode)
         IN  IF absent /\ ~inject
             THEN updateLoop(N, p, sideNodes, commonPrefixCount, i + 1, currentHash, currentData)
             ELSE updateLoop(SimpleMapPut(N, dn[1], dn[2]), p, sideNodes,
                             commonPrefixCount, i + 1, dn[1], dn[1])

\* the result of updateWithSideNodes: the spine r, the Value Store V
updated(r, V) == [root |-> r.root, nodes |-> r.nodes, values |-> V, err |-> NoErr]

\* updateWithSideNodes after the two Puts: N and V are the stores with the new
\* leaf leaf and its value, commonPrefixCount the bits shared with the old leaf
updateSpine(smt, p, valueHash, sideNodes, pathNodes, oldLeafData, leaf, N, V, commonPrefixCount) ==
    IF commonPrefixCount # depth
    THEN LET dn == IF getBitAtFromMSB(p, commonPrefixCount) = right
                   THEN digestNode(pathNodes[1], leaf)
                   ELSE digestNode(leaf, pathNodes[1])
         IN  updated(updateLoop(SimpleMapPut(N, dn[1], dn[2]), p, sideNodes,
                                commonPrefixCount, 0, dn[1], dn[1]), V)
    ELSE IF pathNodes[1] # placeholder /\ parseLeaf(oldLeafData)[2] = valueHash
    THEN [root |-> smt.root, nodes |-> N, values |-> V, err |-> NoErr]
    ELSE updated(updateLoop(N, p, sideNodes, commonPrefixCount, 0, leaf, leaf), V)

\* returns [root, nodes, values, err]
updateWithSideNodes(smt, p, key, value, sideNodes, pathNodes, oldLeafData) ==
    updateSpine(smt, p, digest(value), sideNodes, pathNodes, oldLeafData,
                digestLeaf(p, digest(value))[1],
                SimpleMapPut(smt.nodes, digestLeaf(p, digest(value))[1],
                             digestLeaf(p, digest(value))[2]),
                SimpleMapPut(smt.values, digest(<<p, digest(value)>>), value),
                IF pathNodes[1] = placeholder THEN depth
                ELSE countCommonPrefix(p, parseLeaf(oldLeafData)[1]))

\* UpdateForRoot on the result d of deleteWithSideNodes
deleted(smt, root, d) ==
    IF d.err = errKeyAlreadyEmpty
    THEN [root |-> root, nodes |-> smt.nodes, values |-> smt.values, err |-> NoErr]
    ELSE [root |-> d.root, nodes |-> d.nodes, values |-> smt.values, err |-> d.err]

\* UpdateForRoot after the traversal t
updateAtTerminus(smt, p, key, value, root, t) ==
    IF t.err # NoErr
    THEN [root |-> Nil, nodes |-> smt.nodes, values |-> smt.values, err |-> t.err]
    ELSE IF value = defaultValue
    THEN deleted(smt, root, deleteWithSideNodes(smt, p, t.sideNodes, t.pathNodes, t.leafData))
    ELSE updateWithSideNodes(smt, p, key, value, t.sideNodes, t.pathNodes, t.leafData)

\* u without the leaf that the update replaced
pruned(u, p, value, t) ==
    IF /\ u.err = NoErr
       /\ value # defaultValue
       /\ t.leafData # Nil
       /\ parseLeaf(t.leafData)[1] = p
       /\ parseLeaf(t.leafData)[2] # digest(value)
    THEN [u EXCEPT !.nodes = SimpleMapDelete(@, t.pathNodes[1])]
    ELSE u

prunedAtTerminus(smt, p, key, value, root, t) ==
    pruned(updateAtTerminus(smt, p, key, value, root, t), p, value, t)

\* UpdateForRoot that drops the leaf it replaces from the Node Store
UpdateForRootPruning(smt, key, value, root) ==
    prunedAtTerminus(smt, path(key), key, value, root,
                     sideNodesForRoot(smt, path(key), root, FALSE))

\* returns [root, nodes, values, err]: the returned root, the stores after the call
UpdateForRoot(smt, key, value, root) ==
    updateAtTerminus(smt, path(key), key, value, root,
                     sideNodesForRoot(smt, path(key), root, FALSE))

DeleteForRoot(smt, key, root) == UpdateForRoot(smt, key, defaultValue, root)

\* Update that sets the root to whatever UpdateForRoot returned, error or not
installedAlways(smt, u) ==
    [smt |-> [nodes |-> u.nodes, values |-> u.values, root |-> u.root],
     root |-> IF u.err # NoErr THEN Nil ELSE u.root, err |-> u.err]

\* Update on the result u of UpdateForRoot: SetRoot unless it failed
installed(smt, u) ==
    IF u.err # NoErr
    THEN [smt |-> [nodes |-> u.nodes, values |-> u.values, root |-> smt.root],
          root |-> Nil, err |-> u.err]
    ELSE [smt |-> [nodes |-> u.nodes, values |-> u.values, root |-> u.root],
          root |-> u.root, err |-> NoErr]

\* UpdateForRoot that installs the root it returns, as Update does
forRootInstalling(smt, u) ==
    [smt |-> [nodes |-> u.nodes, values |-> u.values,
              root |-> IF u.err # NoErr THEN smt.root ELSE u.root],
     root |-> u.root, err |-> u.err]

\* the tree after UpdateForRoot returned u: the stores change, smt.root is not assigned
forRootCall(smt, u) ==
    [smt |-> [nodes |-> u.nodes, values |-> u.values, root |-> smt.root],
     root |-> u.root, err |-> u.err]

\* Update returns [smt, root, err]: the tree after the call, the returned root
Update(smt, key, value) == installed(smt, UpdateForRoot(smt, key, value, smt.root))

\* the result u of a Delete without the leaf and the value that g read for the key
withoutLeaf(u, p, g) ==
    IF u.err = NoErr /\ g.err = NoErr /\ g.value # defaultValue
    THEN [u EXCEPT !.smt.nodes = SimpleMapDelete(@, digestLeaf(p, digest(g.value))[1]),
                   !.smt.values = SimpleMapDelete(@, digest(<<p, digest(g.value)>>))]
    ELSE u

\* Delete that also drops the deleted leaf and its value from the stores
DeleteRetracting(smt, key) ==
    withoutLeaf(Update(smt, key, defaultValue), path(key), Get(smt, key))

Delete(smt, key) == Update(smt, key, defaultValue)

\* the loop of RemovePathForRoot without the comparison of the leaf's path
\* with the key's
RECURSIVE removeForRootLoopAnyLeaf(_, _, _, _, _, _)
removeForRootLoopAnyLeaf(N, V, p, pathNodes, leafData, i) ==
    IF i >= Len(pathNodes) THEN [nodes |-> N, values |-> V, err |-> NoErr]
    ELSE LET node == pathNodes[i + 1]
             atLeaf == i = 0 /\ leafData # Nil
             kv == digest(parseLeaf(leafData)[3])
             V1 == IF atLeaf THEN SimpleMapDelete(V, kv) ELSE V
         IN  IF atLeaf /\ kv \notin DOMAIN V
             THEN [nodes |-> N, values |-> V, err |-> InvalidKeyError]
             ELSE IF node = placeholder
             THEN removeForRootLoopAnyLeaf(N, V1, p, pathNodes, leafData, i + 1)
             ELSE IF node \notin DOMAIN N
             THEN [nodes |-> N, values |-> V1, err |-> InvalidKeyError]
             ELSE removeForRootLoopAnyLeaf(SimpleMapDelete(N, node), V1, p,
                                           pathNodes, leafData, i + 1)

\* the loop of RemovePathForRoot over pathNodes[i..]; returns [nodes, values, err]
RECURSIVE removeForRootLoop(_, _, _, _, _, _)
removeForRootLoop(N, V, p, pathNodes, leafData, i) ==
    IF i >= Len(pathNodes) THEN [nodes |-> N, values |-> V, err |-> NoErr]
    ELSE LET node == pathNodes[i + 1]
             atLeaf == i = 0 /\ leafData # Nil
             kv == digest(parseLeaf(leafData)[3])
             V1 == IF atLeaf THEN SimpleMapDelete(V, kv) ELSE V
         IN  IF atLeaf /\ parseLeaf(leafData)[1] # p
             THEN removeForRootLoop(N, V, p, pathNodes, leafData, i + 1)
             ELSE IF atLeaf /\ kv \notin DOMAIN V
             THEN [nodes |-> N, values |-> V, err |-> InvalidKeyError]
             ELSE IF node = placeholder
             THEN removeForRootLoop(N, V1, p, pathNodes, leafData, i + 1)
             ELSE IF node \notin DOMAIN N
             THEN [nodes |-> N, values |-> V1, err |-> InvalidKeyError]
             ELSE removeForRootLoop(SimpleMapDelete(N, node), V1, p,
                                    pathNodes, leafData, i + 1)

\* RemovePathForRoot after the traversal t
removeForRootAt(smt, p, t) ==
    IF t.err # NoErr
    THEN [nodes |-> smt.nodes, values |-> smt.values, err |-> t.err]
    ELSE removeForRootLoop(smt.nodes, smt.values, p, t.pathNodes, t.leafData, 0)

\* RemovePathForRoot that walks the tree's own root, not the root it is given
RemovePathForRootOfTree(smt, key, root) ==
    removeForRootAt(smt, path(key), sideNodesForRoot(smt, path(key), smt.root, FALSE))

RemovePathForRoot(smt, key, root) ==
    removeForRootAt(smt, path(key), sideNodesForRoot(smt, path(key), root, FALSE))

\* the loop of RemovePath that deletes the value of the key's leaf also when
\* the leaf is a path node of keepRoot
RECURSIVE removePathLoopValueAlways(_, _, _, _, _, _, _)
removePathLoopValueAlways(N, V, p, pathNodes, leafData, smap, i) ==
    IF i >= Len(pathNodes) THEN [nodes |-> N, values |-> V, err |-> NoErr]
    ELSE LET node == pathNodes[i + 1]
             atLeaf == i = 0 /\ leafData # Nil
             kv == digest(parseLeaf(leafData)[3])
             V1 == IF atLeaf THEN SimpleMapDelete(V, kv) ELSE V
         IN  IF atLeaf /\ parseLeaf(leafData)[1] # p
             THEN removePathLoopValueAlways(N, V, p, pathNodes, leafData, smap, i + 1)
             ELSE IF atLeaf /\ kv \notin DOMAIN V
             THEN [nodes |-> N, values |-> V, err |-> InvalidKeyError]
             ELSE IF node = placeholder \/ node \in smap
             THEN removePathLoopValueAlways(N, V1, p, pathNodes, leafData, smap, i + 1)
             ELSE IF node \notin DOMAIN N
             THEN [nodes |-> N, values |-> V1, err |-> InvalidKeyError]
             ELSE removePathLoopValueAlways(SimpleMapDelete(N, node), V1, p,
                                            pathNodes, leafData, smap, i + 1)

\* the loop of RemovePath over pathNodes[i..], smap the path nodes of keepRoot
RECURSIVE removePathLoop(_, _, _, _, _, _, _)
removePathLoop(N, V, p, pathNodes, leafData, smap, i) ==
    IF i >= Len(pathNodes) THEN [nodes |-> N, values |-> V, err |-> NoErr]
    ELSE LET node == pathNodes[i + 1]
             atLeaf == i = 0 /\ leafData # Nil
             kv == digest(parseLeaf(leafData)[3])
             V1 == IF atLeaf THEN SimpleMapDelete(V, kv) ELSE V
         IN  IF atLeaf /\ (parseLeaf(leafData)[1] # p \/ pathNodes[1] \in smap)
             THEN removePathLoop(N, V, p, pathNodes, leafData, smap, i + 1)
             ELSE IF atLeaf /\ kv \notin DOMAIN V
             THEN [nodes |-> N, values |-> V, err |-> InvalidKeyError]
             ELSE IF node = placeholder \/ node \in smap
             THEN removePathLoop(N, V1, p, pathNodes, leafData, smap, i + 1)
             ELSE IF node \notin DOMAIN N
             THEN [nodes |-> N, values |-> V1, err |-> InvalidKeyError]
             ELSE removePathLoop(SimpleMapDelete(N, node), V1, p,
                                 pathNodes, leafData, smap, i + 1)

\* RemovePath that spares of keepRoot's path the node at its end only
removePathAtSparingEndOnly(smt, p, t, k) ==
    IF t.err # NoErr
    THEN [nodes |-> smt.nodes, values |-> smt.values, err |-> t.err]
    ELSE IF k.err # NoErr
    THEN [nodes |-> smt.nodes, values |-> smt.values, err |-> k.err]
    ELSE removePathLoop(smt.nodes, smt.values, p, t.pathNodes, t.leafData,
                        {k.pathNodes[1]}, 0)

\* RemovePath after the traversals t of removeRoot and k of keepRoot
removePathAt(smt, p, t, k) ==
    IF t.err # NoErr
    THEN [nodes |-> smt.nodes, values |-> smt.values, err |-> t.err]
    ELSE IF k.err # NoErr
    THEN [nodes |-> smt.nodes, values |-> smt.values, err |-> k.err]
    ELSE removePathLoop(smt.nodes, smt.values, p, t.pathNodes, t.leafData,
                        {k.pathNodes[x] : x \in 1..Len(k.pathNodes)}, 0)

\* RemovePath that spares nothing: keepRoot is taken to be the empty tree
RemovePathSparingNothing(smt, key, removeRoot, keepRoot) ==
    removePathAt(smt, path(key), sideNodesForRoot(smt, path(key), removeRoot, FALSE),
                 [pathNodes |-> <<>>, err |-> NoErr])

RemovePath(smt, key, removeRoot, keepRoot) ==
    removePathAt(smt, path(key), sideNodesForRoot(smt, path(key), removeRoot, FALSE),
                 sideNodesForRoot(smt, path(key), keepRoot, FALSE))

\* the second loop of one round of RemovePathsForRoot: the internal path
\* nodes not seen before are appended to res
RECURSIVE collectPathNodes(_, _, _)
collectPathNodes(pathNodes, res, i) ==
    IF i >= Len(pathNodes) THEN res
    ELSE IF \/ i = 0
            \/ pathNodes[i + 1] = placeholder
            \/ \E x \in 1..Len(res) : res[x] = pathNodes[i + 1]
    THEN collectPathNodes(pathNodes, res, i + 1)
    ELSE collectPathNodes(pathNodes, Append(res, pathNodes[i + 1]), i + 1)

\* the final loop of RemovePathsForRoot
RECURSIVE deleteCollected(_, _, _, _)
deleteCollected(N, V, res, i) ==
    IF i >= Len(res) THEN [nodes |-> N, values |-> V, err |-> NoErr]
    ELSE IF res[i + 1] \notin DOMAIN N
    THEN [nodes |-> N, values |-> V, err |-> InvalidKeyError]
    ELSE deleteCollected(SimpleMapDelete(N, res[i + 1]), V, res, i + 1)

\* the loop of RemovePathsForRoot over keys[i..]; removePathsStep is one round
\* of it, after the traversal t for keys[i]
RECURSIVE removePathsLoop(_, _, _, _, _, _)
RECURSIVE removePathsStep(_, _, _, _, _, _, _, _)
\* one round of the loop that deletes the key's leaf and leaves its value
removePathsStepKeepingValue(N, V, keys, root, res, i, p, t) ==
    LET own == t.leafData # Nil /\ parseLeaf(t.leafData)[1] = p
    IN  IF t.err # NoErr THEN [nodes |-> N, values |-> V, err |-> t.err]
        ELSE IF own /\ t.pathNodes[1] \notin DOMAIN N
        THEN [nodes |-> N, values |-> V, err |-> InvalidKeyError]
        ELSE removePathsLoop(IF own THEN SimpleMapDelete(N, t.pathNodes[1]) ELSE N,
                             V, keys, root, collectPathNodes(t.pathNodes, res, 0), i + 1)

removePathsStep(N, V, keys, root, res, i, p, t) ==
    LET own == t.leafData # Nil /\ parseLeaf(t.leafData)[1] = p
        kv == digest(parseLeaf(t.leafData)[3])
    IN  IF t.err # NoErr THEN [nodes |-> N, values |-> V, err |-> t.err]
        ELSE IF own /\ kv \notin DOMAIN V
        THEN [nodes |-> N, values |-> V, err |-> InvalidKeyError]
        ELSE IF own /\ t.pathNodes[1] \notin DOMAIN N
        THEN [nodes |-> N, values |-> SimpleMapDelete(V, kv), err |-> InvalidKeyError]
        ELSE removePathsLoop(IF own THEN SimpleMapDelete(N, t.pathNodes[1]) ELSE N,
                             IF own THEN SimpleMapDelete(V, kv) ELSE V,
                             keys, root, collectPathNodes(t.pathNodes, res, 0), i + 1)

removePathsLoop(N, V, keys, root, res, i) ==
    IF i >= Len(keys) THEN deleteCollected(N, V, res, 0)
    ELSE removePathsStep(N, V, keys, root, res, i, path(keys[i + 1]),
                         sideNodesForRoot([nodes |-> N, values |-> V, root |-> root],
                                          path(keys[i + 1]), root, FALSE))

RemovePathsForRoot(smt, keys, root) ==
    removePathsLoop(smt.nodes, smt.values, keys, root, <<>>, 0)

\* ---- smt.go: proofs ----
SparseMerkleProof(sideNodes, nonMembershipLeafData, siblingData) ==
    [SideNodes |-> sideNodes, NonMembershipLeafData |-> nonMembershipLeafData,
     SiblingData |-> siblingData]

\* doProveForRoot after the traversal t, the leaf of another key left out of the proof
proofAtTerminusNoLeaf(p, t) ==
    IF t.err # NoErr
    THEN [proof |-> SparseMerkleProof(Nil, Nil, Nil), err |-> t.err]
    ELSE [proof |-> SparseMerkleProof(SelectSeq(t.sideNodes, LAMBDA v : v # Nil),
                                      Nil, t.siblingData),
          err |-> NoErr]

\* doProveForRoot after the traversal t; returns [proof, err]
proofAtTerminus(p, t) ==
    IF t.err # NoErr
    THEN [proof |-> SparseMerkleProof(Nil, Nil, Nil), err |-> t.err]
    ELSE [proof |-> SparseMerkleProof(
                        SelectSeq(t.sideNodes, LAMBDA v : v # Nil),
                        IF t.pathNodes[1] # placeholder /\ parseLeaf(t.leafData)[1] # p
                        THEN t.leafData ELSE Nil,
                        t.siblingData),
          err |-> NoErr]

doProveForRootNoLeaf(smt, key, root, isUpdatable) ==
    proofAtTerminusNoLeaf(path(key), sideNodesForRoot(smt, path(key), root, isUpdatable))

doProveForRoot(smt, key, root, isUpdatable) ==
    proofAtTerminus(path(key), sideNodesForRoot(smt, path(key), root, isUpdatable))

ProveForRoot(smt, key, root) == doProveForRoot(smt, key, root, FALSE)

ProveUpdatableForRoot(smt, key, root) == doProveForRoot(smt, key, root, TRUE)

\* ---- the verifier of a proof: the root recomputed from the candidate leaf ----
\* the digest at the terminus of the path: the leaf of (p, value), and for the
\* default value the placeholder or the leaf the proof shows in the key's place
candidateLeaf(proof, p, value) ==
    IF value # defaultValue THEN digestLeaf(p, digest(value))[1]
    ELSE IF proof.NonMembershipLeafData = Nil THEN placeholder
    ELSE digestLeaf(parseLeaf(proof.NonMembershipLeafData)[1],
                    parseLeaf(proof.NonMembershipLeafData)[2])[1]

\* the candidate combined upward with sideNodes[i..], by the bits of the path
RECURSIVE reduceUpward(_, _, _, _)
reduceUpward(sideNodes, p, i, currentHash) ==
    IF i >= Len(sideNodes) THEN currentHash
    ELSE IF getBitAtFromMSB(p, Len(sideNodes) - 1 - i) = right
    THEN reduceUpward(sideNodes, p, i + 1, digestNode(sideNodes[i + 1], currentHash)[1])
    ELSE reduceUpward(sideNodes, p, i + 1, digestNode(currentHash, sideNodes[i + 1])[1])

VerifyProof(proof, root, key, value) ==
    /\ ~(/\ value = defaultValue
         /\ proof.NonMembershipLeafData # Nil
         /\ parseLeaf(proof.NonMembershipLeafData)[1] = path(key))
    /\ reduceUpward(proof.SideNodes, path(key), 0,
                    candidateLeaf(proof, path(key), value)) = root

\* ---- the state machine ----
VARIABLES
    nodes,   \* smt.nodes, the Node Store (a SimpleMap)
    values,  \* smt.values, the Value Store (a SimpleMap)
    root,    \* smt.root
    m,       \* the abstract key-value map written through Update and Delete
    hist,    \* the roots returned by Update and Delete, each with the map it stands for
    last,    \* the last call: its name, its arguments and what it returned
    prev,    \* the tree and the abstract map before the last call
    cnt,     \* the calls made so far, by kind; of the caller's own calls on the
             \* Value Store, for each key the Puts since the key was last absent
             \* and the Deletes that succeeded since then
    scen,    \* position in a scenario, with the keys, the value and the roots it names
    blk      \* the block workload: block i, operation j, the roots and maps at the
             \* end of each block, the keys used, whether a call returned an
             \* error, whether an update wrote the value its key already had

vars == <<nodes, values, root, m, hist, last, prev, cnt, scen, blk>>

tree == [nodes |-> nodes, values |-> values, root |-> root]

EmptyMap == [k \in Keys |-> defaultValue]

\* the keys of the caller's own calls on the Value Store: two keys under
\* which the tree files values
StoreKeys == {digest(<<path(k), digest(<<1>>)>>) : k \in 0..1}

\* the Puts counted for a key of the Value Store stay within MaxPuts of the
\* count the key started with
PutRoom(key) ==
    \/ cnt.puts[key] < MaxPuts
    \/ cnt.puts[key] >= CountModulus - 1 /\ cnt.puts[key] < CountModulus - 1 + MaxPuts

Live(mm) == {k \in Keys : mm[k] # defaultValue}

Call(op, key, value, r, keep, keys, ret, err) ==
    [op |-> op, key |-> key, value |-> value, root |-> r, keep |-> keep,
     keys |-> keys, ret |-> ret, err |-> err]

KnownRoots == {placeholder} \cup {h.root : h \in hist}

Init ==
    /\ nodes = NewSparseMerkleTree.nodes
    /\ values = NewSparseMerkleTree.values
    /\ root = NewSparseMerkleTree.root
    /\ m = EmptyMap
    /\ hist = {}
    /\ last = Call("New", 0, Nil, placeholder, Nil, <<>>, placeholder, NoErr)
    /\ prev = [nodes |-> NewSimpleMap, values |-> NewSimpleMap, root |-> placeholder,
               m |-> EmptyMap]
    /\ cnt = [ops |-> 0, forRoot |-> 0, retract |-> 0, reads |-> 0,
              puts |-> [x \in StoreKeys |-> 0], dels |-> [x \in StoreKeys |-> 0]]
    /\ scen = [step |-> 0, k1 |-> 0, k2 |-> 0, v |-> Nil, r1 |-> Nil, r2 |-> Nil,
               r3 |-> Nil]
    /\ blk = [i |-> 0, j |-> 0, roots |-> <<>>, kv |-> <<>>, used |-> {}, err |-> FALSE,
             same |-> FALSE]

\* the calls that write to the stores
Calls == cnt.ops + cnt.forRoot + cnt.retract

Remember == prev' = [nodes |-> nodes, values |-> values, root |-> root, m |-> m]

\* the state after smt.Update(key, value) returned u
AfterUpdate(op, key, value, u) ==
    /\ nodes' = u.smt.nodes
    /\ values' = u.smt.values
    /\ root' = u.smt.root
    /\ m' = IF u.err = NoErr THEN [m EXCEPT ![key] = value] ELSE m
    /\ hist' = IF u.err = NoErr
               THEN hist \cup {[root |-> u.root, m |-> [m EXCEPT ![key] = value]]}
               ELSE hist
    /\ last' = Call(op, key, value, root, Nil, <<>>, u.root, u.err)
    /\ Remember

\* smt.Update(key, value), value possibly the default, called under the name op
CallUpdate(op, key, value) == AfterUpdate(op, key, value, Update(tree, key, value))

DoUpdate(key, value) ==
    /\ Calls < MaxOps
    /\ CallUpdate("Update", key, value)
    /\ cnt' = [cnt EXCEPT !.ops = @ + 1]
    /\ UNCHANGED <<scen, blk>>

DoDelete(key) ==
    /\ Calls < MaxOps
    /\ AfterUpdate("Delete", key, defaultValue, Delete(tree, key))
    /\ cnt' = [cnt EXCEPT !.ops = @ + 1]
    /\ UNCHANGED <<scen, blk>>

\* the state after smt.UpdateForRoot(key, value, r) returned u
ForRootReturned(op, key, value, r, u) ==
    /\ nodes' = u.nodes
    /\ values' = u.values
    /\ root' = forRootCall(tree, u).smt.root
    /\ last' = Call(op, key, value, r, Nil, <<>>, u.root, u.err)
    /\ Remember
    /\ cnt' = [cnt EXCEPT !.forRoot = @ + 1]
    /\ UNCHANGED <<m, hist, blk>>

AfterForRoot(op, key, value, r, u) ==
    /\ Calls < MaxOps
    /\ cnt.forRoot < MaxForRoot
    /\ ForRootReturned(op, key, value, r, u)
    /\ UNCHANGED scen

DoUpdateForRoot(key, value, r) ==
    AfterForRoot("UpdateForRoot", key, value, r, UpdateForRoot(tree, key, value, r))

DoDeleteForRoot(key, r) ==
    AfterForRoot("DeleteForRoot", key, defaultValue, r, DeleteForRoot(tree, key, r))

\* Update and Delete on the tree's own root
Next ==
    \/ \E key \in Keys, value \in Values : DoUpdate(key, value)
    \/ \E key \in Keys : DoDelete(key)

Spec == Init /\ [][Next]_vars

\* Update and Delete, and the ForRoot variants on any root returned so far
NextForRoot ==
    \/ \E key \in Keys, value \in Values : DoUpdate(key, value)
    \/ \E key \in Keys : DoDelete(key)
    \/ \E key \in Keys, value \in Values, r \in KnownRoots : DoUpdateForRoot(key, value, r)
    \/ \E key \in Keys, r \in KnownRoots : DoDeleteForRoot(key, r)

SpecForRoot == Init /\ [][NextForRoot]_vars

\* the state after a retraction returned res, the stores it left and its error
AfterRetract(op, key, r, keep, keys, res) ==
    /\ nodes' = res.nodes
    /\ values' = res.values
    /\ last' = Call(op, key, Nil, r, keep, keys, Nil, res.err)
    /\ Remember
    /\ UNCHANGED <<root, m, hist>>

CallRetract(op, key, r, keep, keys, res) ==
    /\ Calls < MaxOps
    /\ cnt.retract < MaxRetract
    /\ AfterRetract(op, key, r, keep, keys, res)
    /\ cnt' = [cnt EXCEPT !.retract = @ + 1]
    /\ UNCHANGED <<scen, blk>>

DoRemovePathForRoot(key, r) ==
    CallRetract("RemovePathForRoot", key, r, Nil, <<>>, RemovePathForRoot(tree, key, r))

DoRemovePath(key, removeRoot, keepRoot) ==
    CallRetract("RemovePath", key, removeRoot, keepRoot, <<>>,
                RemovePath(tree, key, removeRoot, keepRoot))

\* Update and Delete, and the retraction of one key's path under a root
NextRetract ==
    \/ \E key \in Keys, value \in Values : DoUpdate(key, value)
    \/ \E key \in Keys : DoDelete(key)
    \/ \E key \in Keys, r \in KnownRoots : DoRemovePathForRoot(key, r)
    \/ \E key \in Keys, r \in KnownRoots, keep \in KnownRoots : DoRemovePath(key, r, keep)

SpecRetract == Init /\ [][NextRetract]_vars

\* ---- two keys are given one value, then the first key's path is retracted ----
ScenFirstUpdate(k1, v) ==
    /\ scen.step = 0
    /\ CallUpdate("Update", k1, v)
    /\ scen' = [scen EXCEPT !.step = 1, !.k1 = k1, !.v = v, !.r1 = last'.ret]
    /\ UNCHANGED <<cnt, blk>>

ScenSecondUpdate(k2) ==
    /\ scen.step = 1
    /\ k2 # scen.k1
    /\ CallUpdate("Update", k2, scen.v)
    /\ scen' = [scen EXCEPT !.step = 2, !.k2 = k2, !.r2 = last'.ret]
    /\ UNCHANGED <<cnt, blk>>

ScenRemovePathForRoot(r) ==
    /\ scen.step = 2
    /\ AfterRetract("RemovePathForRoot", scen.k1, r, Nil, <<>>,
                    RemovePathForRoot(tree, scen.k1, r))
    /\ scen' = [scen EXCEPT !.step = 3]
    /\ UNCHANGED <<cnt, blk>>

\* the state after smt.Get(key) returned g: the value read is kept in last.value
AfterGet(key, g) ==
    /\ last' = Call("Get", key, g.value, root, Nil, <<>>, Nil, g.err)
    /\ Remember
    /\ UNCHANGED <<nodes, values, root, m, hist>>

ScenGet(key) ==
    /\ scen.step = 3
    /\ AfterGet(key, Get(tree, key))
    /\ scen' = [scen EXCEPT !.step = 4]
    /\ UNCHANGED <<cnt, blk>>

NextShared ==
    \/ \E k1 \in Keys, v \in Values : ScenFirstUpdate(k1, v)
    \/ \E k2 \in Keys : ScenSecondUpdate(k2)
    \/ \E r \in {scen.r1, scen.r2} : ScenRemovePathForRoot(r)
    \/ \E key \in Keys : ScenGet(key)

SpecShared == Init /\ [][NextShared]_vars

\* ---- the block workload of bulkOperations1 ----
\* the state after an operation of a block: u is what Update returned, r what
\* the retraction that followed it left and returned
AfterBlockOp(op, key, value, u, r) ==
    /\ nodes' = r.nodes
    /\ values' = r.values
    /\ root' = u.smt.root
    /\ m' = [m EXCEPT ![key] = value]
    /\ last' = Call(op, key, value, root, Nil, <<>>, u.root,
                    IF u.err # NoErr THEN u.err ELSE r.err)
    /\ Remember
    /\ blk' = [blk EXCEPT !.j = @ + 1, !.used = @ \cup {key},
                          !.err = @ \/ u.err # NoErr \/ r.err # NoErr,
                          !.same = @ \/ m[key] = value]
    /\ UNCHANGED <<hist, cnt, scen>>

\* unless the operation is the first of its block, the root held before it is
\* retracted for its key: RemovePath keeps the previous block's root, and the
\* first block has RemovePathForRoot
BlockRetract(key, oldRoot, u) ==
    IF blk.j = 0 THEN [nodes |-> u.smt.nodes, values |-> u.smt.values, err |-> NoErr]
    ELSE IF blk.i > 0 THEN RemovePath(u.smt, key, oldRoot, blk.roots[blk.i])
    ELSE RemovePathForRoot(u.smt, key, oldRoot)

BlockUpdated(op, key, value, u) ==
    AfterBlockOp(op, key, value, u, BlockRetract(key, root, u))

\* one operation of a block: Update of key with value, the default value for a delete
BlockOp(op, key, value) ==
    /\ blk.i < MaxBlocks
    /\ blk.j < OpsPerBlock
    /\ BlockUpdated(op, key, value, Update(tree, key, value))

BlockInsert(key, value) ==
    /\ key \notin blk.used
    /\ BlockOp("Insert", key, value)

BlockUpdate(key, value) ==
    /\ m[key] # defaultValue
    /\ BlockOp("Update", key, value)

BlockDelete(key) ==
    /\ m[key] # defaultValue
    /\ BlockOp("Delete", key, defaultValue)

\* an update or a delete drawn while no key is live: the operation is skipped
BlockSkip ==
    /\ blk.i < MaxBlocks
    /\ blk.j < OpsPerBlock
    /\ Live(m) = {}
    /\ blk' = [blk EXCEPT !.j = @ + 1]
    /\ UNCHANGED <<nodes, values, root, m, hist, last, prev, cnt, scen>>

BlockEnd ==
    /\ blk.i < MaxBlocks
    /\ blk.j = OpsPerBlock
    /\ blk' = [blk EXCEPT !.i = @ + 1, !.j = 0,
                          !.roots = Append(@, root), !.kv = Append(@, m)]
    /\ UNCHANGED <<nodes, values, root, m, hist, last, prev, cnt, scen>>

NextBlock ==
    \/ \E key \in Keys, value \in Values : BlockInsert(key, value)
    \/ \E key \in Keys, value \in Values : BlockUpdate(key, value)
    \/ \E key \in Keys : BlockDelete(key)
    \/ BlockSkip
    \/ BlockEnd

SpecBlock == Init /\ [][NextBlock]_vars

\* ---- a key is changed and set back to its value, then its first version is retracted ----
\* Update or Delete of a live key k1 that changes its value v: r1 is the root
\* before the call, r2 the root returned
SameLeafChange(k, value) ==
    /\ scen.step = 0
    /\ m[k] # defaultValue
    /\ value # m[k]
    /\ CallUpdate(IF value = defaultValue THEN "Delete" ELSE "Update", k, value)
    /\ scen' = [scen EXCEPT !.step = 1, !.k1 = k, !.v = m[k], !.r1 = root, !.r2 = last'.ret]
    /\ UNCHANGED <<cnt, blk>>

\* Update(k1, v) when k1 no longer holds v: r3 is the root returned
SameLeafSetBack ==
    /\ scen.step = 1
    /\ m[scen.k1] # scen.v
    /\ CallUpdate("Update", scen.k1, scen.v)
    /\ scen' = [scen EXCEPT !.step = 2, !.r3 = last'.ret]
    /\ UNCHANGED <<cnt, blk>>

SameLeafRemovePath ==
    /\ scen.step = 2
    /\ AfterRetract("RemovePath", scen.k1, scen.r1, scen.r2, <<>>,
                    RemovePath(tree, scen.k1, scen.r1, scen.r2))
    /\ scen' = [scen EXCEPT !.step = 3]
    /\ UNCHANGED <<cnt, blk>>

\* Update and Delete of any key before the change and between the change and
\* the setting back
NextSameLeaf ==
    \/ \E key \in Keys, value \in Values : scen.step <= 1 /\ DoUpdate(key, value)
    \/ \E key \in Keys : scen.step <= 1 /\ DoDelete(key)
    \/ \E k \in Keys, value \in Values \cup {defaultValue} : SameLeafChange(k, value)
    \/ SameLeafSetBack
    \/ SameLeafRemovePath

SpecSameLeaf == Init /\ [][NextSameLeaf]_vars

\* ---- proofs of the roots returned by Update and Delete ----
\* the state after a proof operation returned pr: the proof is kept in last.ret
AfterProve(op, key, r, pr) ==
    /\ cnt.reads < MaxReads
    /\ last' = Call(op, key, Nil, r, Nil, <<>>, pr.proof, pr.err)
    /\ Remember
    /\ cnt' = [cnt EXCEPT !.reads = @ + 1]
    /\ UNCHANGED <<nodes, values, root, m, hist, scen, blk>>

DoProveForRoot(key, r) ==
    AfterProve("ProveForRoot", key, r, ProveForRoot(tree, key, r))

DoProveUpdatableForRoot(key, r) ==
    AfterProve("ProveUpdatableForRoot", key, r, ProveUpdatableForRoot(tree, key, r))

\* Update and Delete, then a proof for a key under a root returned so far
NextProve ==
    \/ \E key \in Keys, value \in Values : cnt.reads = 0 /\ DoUpdate(key, value)
    \/ \E key \in Keys : cnt.reads = 0 /\ DoDelete(key)
    \/ \E key \in Keys, r \in KnownRoots : DoProveForRoot(key, r)
    \/ \E key \in Keys, r \in KnownRoots : DoProveUpdatableForRoot(key, r)

SpecProve == Init /\ [][NextProve]_vars

\* ---- every operation of the tree ----
\* the state after smt.GetFromRoot(key, r) returned g: the value read is kept
\* in last.value
AfterGetFromRoot(key, r, g) ==
    /\ cnt.reads < MaxReads
    /\ last' = Call("GetFromRoot", key, g.value, r, Nil, <<>>, Nil, g.err)
    /\ Remember
    /\ cnt' = [cnt EXCEPT !.reads = @ + 1]
    /\ UNCHANGED <<nodes, values, root, m, hist, scen, blk>>

DoGetFromRoot(key, r) == AfterGetFromRoot(key, r, GetFromRoot(tree, key, r))

\* the lists of keys given to RemovePathsForRoot
KeyLists == UNION {[1..n -> Keys] : n \in 1..MaxKeyList}

DoRemovePathsForRoot(keys, r) ==
    CallRetract("RemovePathsForRoot", keys[1], r, Nil, keys, RemovePathsForRoot(tree, keys, r))

\* the writes and the retractions in any order, then one read or one proof
\* a write or a retraction may follow: no read was made and calls are left
Writing == cnt.reads = 0 /\ Calls < MaxAllOps

NextAll ==
    \/ \E key \in Keys, value \in Values : Writing /\ DoUpdate(key, value)
    \/ \E key \in Keys : Writing /\ DoDelete(key)
    \/ \E key \in Keys, value \in Values, r \in KnownRoots :
          Writing /\ DoUpdateForRoot(key, value, r)
    \/ \E key \in Keys, r \in KnownRoots : Writing /\ DoDeleteForRoot(key, r)
    \/ \E key \in Keys, r \in KnownRoots : Writing /\ DoRemovePathForRoot(key, r)
    \/ \E key \in Keys, r \in KnownRoots, keep \in KnownRoots :
          Writing /\ DoRemovePath(key, r, keep)
    \/ \E keys \in KeyLists, r \in KnownRoots : Writing /\ DoRemovePathsForRoot(keys, r)
    \/ \E key \in Keys, r \in KnownRoots : DoGetFromRoot(key, r)
    \/ \E key \in Keys, r \in KnownRoots : DoProveForRoot(key, r)
    \/ \E key \in Keys, r \in KnownRoots : DoProveUpdatableForRoot(key, r)

SpecAll == Init /\ [][NextAll]_vars

\* ---- the caller's own calls on the Value Store, a SimpleMap ----
AfterStoreCall(op, key, value, ret, err, sm) ==
    /\ values' = sm
    /\ last' = Call(op, key, value, Nil, Nil, <<>>, ret, err)
    /\ Remember
    /\ UNCHANGED <<nodes, root, m, hist, scen, blk>>

DoStorePut(key, value) ==
    /\ PutRoom(key)
    /\ AfterStoreCall("values.Put", key, value, Nil, NoErr, SimpleMapPut(values, key, value))
    /\ cnt' = IF key \in DOMAIN values
              THEN [cnt EXCEPT !.puts[key] = @ + 1]
              ELSE [cnt EXCEPT !.puts[key] = 1, !.dels[key] = 0]

StoreDeleted(key, d) ==
    /\ AfterStoreCall("values.Delete", key, Nil, Nil, d.err, d.sm)
    /\ cnt' = IF d.err = NoErr THEN [cnt EXCEPT !.dels[key] = @ + 1] ELSE cnt

\* the Deletes counted for a key stay within MaxPuts
DoStoreDelete(key) ==
    /\ cnt.dels[key] < MaxPuts
    /\ StoreDeleted(key, SimpleMapDeleteCall(values, key))

StoreGot(key, g) ==
    /\ AfterStoreCall("values.Get", key, Nil, g.value, g.err, values)
    /\ UNCHANGED cnt

DoStoreGet(key) ==
    /\ last.op # "values.Get"
    /\ StoreGot(key, SimpleMapGet(values, key))

DoStoreHas(key) ==
    /\ last.op # "values.Has"
    /\ AfterStoreCall("values.Has", key, Nil, SimpleMapHas(values, key), NoErr, values)
    /\ UNCHANGED cnt

NextStore ==
    \/ \E key \in StoreKeys, value \in Values : DoStorePut(key, value)
    \/ \E key \in StoreKeys : DoStoreDelete(key)
    \/ \E key \in StoreKeys : DoStoreGet(key)
    \/ \E key \in StoreKeys : DoStoreHas(key)

\* the Value Store after n Puts of each of its keys x, n = c[x], and no Delete
StoreAfterPuts(c) ==
    [x \in {y \in StoreKeys : c[y] > 0} |-> [data |-> <<1>>, count |-> c[x]]]

\* a SimpleMap in which each key was Put not at all, once, or as many times as
\* its counter allows without wrapping
InitStore ==
    /\ \E c \in [StoreKeys -> {0, 1, CountModulus - 1}] :
          /\ values = StoreAfterPuts(c)
          /\ cnt = [ops |-> 0, forRoot |-> 0, retract |-> 0, reads |-> 0,
                    puts |-> c, dels |-> [x \in StoreKeys |-> 0]]
    /\ nodes = NewSimpleMap
    /\ root = placeholder
    /\ m = EmptyMap
    /\ hist = {}
    /\ last = Call("New", 0, Nil, placeholder, Nil, <<>>, placeholder, NoErr)
    /\ prev = [nodes |-> NewSimpleMap, values |-> values, root |-> placeholder,
               m |-> EmptyMap]
    /\ scen = [step |-> 0, k1 |-> 0, k2 |-> 0, v |-> Nil, r1 |-> Nil, r2 |-> Nil,
               r3 |-> Nil]
    /\ blk = [i |-> 0, j |-> 0, roots |-> <<>>, kv |-> <<>>, used |-> {}, err |-> FALSE,
              same |-> FALSE]

SpecStore == InitStore /\ [][NextStore]_vars

\* ---- reads of a tree whose stores lost entries ----
\* Update, Delete, the retraction of a path and the caller's own Delete on the
\* Value Store, then one GetFromRoot
NextRead ==
    \/ \E key \in Keys, value \in Values : Writing /\ DoUpdate(key, value)
    \/ \E key \in Keys : Writing /\ DoDelete(key)
    \/ \E key \in Keys, r \in KnownRoots : Writing /\ DoRemovePathForRoot(key, r)
    \/ \E key \in StoreKeys : cnt.reads = 0 /\ DoStoreDelete(key)
    \/ \E key \in Keys, r \in KnownRoots : DoGetFromRoot(key, r)

SpecRead == Init /\ [][NextRead]_vars

\* ---- UpdateForRoot of a key under a root, then DeleteForRoot of the key
\* under the root that it returned ----
\* scen keeps the key, the value and the three roots: r1 given to
\* UpdateForRoot, r2 returned by it, r3 returned by DeleteForRoot
UndoInsert(key, value, r, u) ==
    /\ scen.step = 0
    /\ Calls < MaxOps
    /\ ForRootReturned("UpdateForRoot", key, value, r, u)
    /\ scen' = [scen EXCEPT !.step = 1, !.k1 = key, !.v = value, !.r1 = r, !.r2 = u.root]

DoUndoInsert(key, value, r) == UndoInsert(key, value, r, UpdateForRoot(tree, key, value, r))

UndoDelete(u) ==
    /\ scen.step = 1
    /\ last.err = NoErr
    /\ ForRootReturned("DeleteForRoot", scen.k1, defaultValue, scen.r2, u)
    /\ scen' = [scen EXCEPT !.step = 2, !.r3 = u.root]

DoUndoDelete == UndoDelete(DeleteForRoot(tree, scen.k1, scen.r2))

NextUndo ==
    \/ \E key \in Keys, value \in Values : scen.step = 0 /\ DoUpdate(key, value)
    \/ \E key \in Keys : scen.step = 0 /\ DoDelete(key)
    \/ \E key \in Keys, value \in Values, r \in KnownRoots : DoUndoInsert(key, value, r)
    \/ DoUndoDelete

SpecUndo == Init /\ [][NextUndo]_vars

\* ---- the abstract map and the shape of the stored trees ----
\* the store read through root r is the map mm
ReadsAs(t, r, mm) == \A k \in Keys : GetFromRoot(t, k, r) = Found(mm[k])

\* the orders in which the keys of S can be listed
RECURSIVE Orders(_)
Orders(S) ==
    IF S = {} THEN {<<>>}
    ELSE UNION {{<<k>> \o o : o \in Orders(S \ {k})} : k \in S}

\* Update of every key of order with its value in mm, one after the other
RECURSIVE InsertAll(_, _, _)
InsertAll(t, order, mm) ==
    IF order = <<>> THEN t
    ELSE InsertAll(Update(t, Head(order), mm[Head(order)]).smt, Tail(order), mm)

\* the traversal t ended at a placeholder, or at the leaf of a key other than p's
AtPlaceholder(t) == t.err = NoErr /\ t.pathNodes[1] = placeholder

AtOtherLeaf(t, p) ==
    /\ t.err = NoErr
    /\ t.leafData # Nil
    /\ isLeaf(t.leafData)
    /\ parseLeaf(t.leafData)[1] # p

EndsAtPlaceholder(t, key, r) == AtPlaceholder(sideNodesForRoot(t, path(key), r, FALSE))

EndsAtOtherLeaf(t, key, r) == AtOtherLeaf(sideNodesForRoot(t, path(key), r, FALSE), path(key))

Before == [nodes |-> prev.nodes, values |-> prev.values, root |-> prev.root]

\* the digests of the nodes of the tree under the digest d, read off the digest
RECURSIVE TreeNodes(_)
TreeNodes(d) ==
    IF d = placeholder THEN {}
    ELSE IF isLeaf(d[1]) THEN {d}
    ELSE {d} \cup TreeNodes(parseNode(d[1])[1]) \cup TreeNodes(parseNode(d[1])[2])

\* the Value Store keys of the leaves of the tree under d
TreeValueKeys(d) == {digest(parseLeaf(n[1])[3]) : n \in {x \in TreeNodes(d) : isLeaf(x[1])}}

\* every node and every value of the tree under r is in the stores
Intact(t, r) ==
    /\ TreeNodes(r) \subseteq DOMAIN t.nodes
    /\ TreeValueKeys(r) \subseteq DOMAIN t.values

\* ---- the claims ----

\* C1: after any sequence of Update and Delete calls from the empty tree, Get(k)
\* returns for every key k the value the abstract map holds for k: the last
\* value written if k was not deleted since, the default value otherwise.
C1_GetIsTheMap == ReadsAs(tree, root, m)

C1_Witness ==
    /\ last.op = "Delete"
    /\ prev.m[last.key] # defaultValue
    /\ Get(tree, last.key) = Found(defaultValue)
    /\ \E k \in Keys : m[k] # defaultValue /\ Get(tree, k).value = m[k]
    /\ \E k \in Keys : EndsAtOtherLeaf(tree, k, root)

\* C2: without retraction, every root returned by an earlier Update or Delete
\* still reads, for every key, as the map it was returned for.
C2_HistoricalRootsStayValid == \A h \in hist : ReadsAs(tree, h.root, h.m)

C2_Witness ==
    \E h \in hist :
        /\ h.root # root
        /\ h.root # placeholder
        /\ \E k \in Keys : h.m[k] # defaultValue /\ h.m[k] # m[k] /\ m[k] # defaultValue
        /\ \E k \in Keys : h.m[k] # defaultValue /\ m[k] = defaultValue
        /\ ReadsAs(tree, h.root, h.m)

\* C3: the root depends on the map alone: it is the root of the tree built by
\* inserting the pairs of the map into an empty tree, in whatever order.
C3_RootIsOrderIndependent ==
    \A order \in Orders(Live(m)) : InsertAll(NewSparseMerkleTree, order, m).root = root

C3_Witness ==
    /\ Cardinality(Live(m)) >= 3
    /\ last.op = "Update"
    /\ prev.m[last.key] # defaultValue
    /\ prev.m[last.key] # m[last.key]
    /\ \A order \in Orders(Live(m)) : InsertAll(NewSparseMerkleTree, order, m).root = root

\* C4: the root is the placeholder exactly when no key holds a value.
C4_PlaceholderIffEmpty == (root = placeholder) <=> (Live(m) = {})

C4_Witness ==
    /\ last.op = "Delete"
    /\ last.err = NoErr
    /\ prev.root # placeholder
    /\ root = placeholder
    /\ cnt.ops >= 4

\* C5: Delete and DeleteForRoot of a key absent under the root (the traversal
\* ends at a placeholder or at another key's leaf) return the root they were
\* given, with no error, and leave both stores as they were.
C5_DeleteOfAbsentKey ==
    (/\ last.op \in {"Delete", "DeleteForRoot"}
     /\ \/ EndsAtPlaceholder(Before, last.key, last.root)
        \/ EndsAtOtherLeaf(Before, last.key, last.root))
    => (/\ last.err = NoErr
        /\ last.ret = last.root
        /\ nodes = prev.nodes
        /\ values = prev.values
        /\ root = prev.root)

C5_Witness ==
    /\ last.op = "DeleteForRoot"
    /\ last.root # root
    /\ EndsAtOtherLeaf(Before, last.key, last.root)
    /\ last.ret = last.root
    /\ nodes = prev.nodes

\* C6: Update of a key with the value it already holds returns the same root
\* and changes nothing: same entries, same reference counts in both stores.
C6_SameValueUpdateChangesNothing ==
    (/\ last.op = "Update"
     /\ prev.m[last.key] = last.value)
    => (/\ last.ret = prev.root
        /\ root = prev.root
        /\ nodes = prev.nodes
        /\ values = prev.values)

\* C7: UpdateForRoot(k, v, r) of a key that already holds v under r returns r,
\* also when r is not the tree's current root.
C7_SameValueUpdateForRootReturnsItsRoot ==
    (/\ last.op = "UpdateForRoot"
     /\ GetFromRoot(Before, last.key, last.root) = Found(last.value))
    => last.ret = last.root

\* C8: RemovePath(k, r_old, r_keep) on two roots returned by Update or Delete
\* whose trees are whole in the stores removes no node and no value of the
\* tree under r_keep, and GetFromRoot(k', r_keep) returns for every key k'
\* what it returned before the call.
C8_RemovePathSparesKeepRoot ==
    (/\ last.op = "RemovePath"
     /\ Intact(Before, last.root)
     /\ Intact(Before, last.keep))
    => (/\ Intact(tree, last.keep)
        /\ \A k \in Keys :
              GetFromRoot(tree, k, last.keep) = GetFromRoot(Before, k, last.keep)
        /\ \A h \in hist : h.root = last.keep => ReadsAs(tree, h.root, h.m))

C8_Witness ==
    /\ last.op = "RemovePath"
    /\ last.err = NoErr
    /\ Intact(Before, last.root)
    /\ Intact(Before, last.keep)
    /\ last.root # last.keep
    /\ last.keep # placeholder
    /\ TreeNodes(last.root) \cap TreeNodes(last.keep) # {}
    /\ DOMAIN nodes # DOMAIN prev.nodes
    /\ DOMAIN values # DOMAIN prev.values
    /\ \E k \in Keys : GetFromRoot(tree, k, last.keep) = Found(prev.m[k]) /\ k \in Live(prev.m)

\* the checks of bulkOperations1: checkOne after each block, checkAll at the end
CheckOne ==
    (blk.j = 0 /\ blk.i > 0)
    => \A k \in Live(blk.kv[blk.i]) : Get(tree, k) = Found(blk.kv[blk.i][k])

CheckAll ==
    blk.i = MaxBlocks
    => \A b \in 1..MaxBlocks : \A k \in Live(blk.kv[b]) :
          GetFromRoot(tree, k, blk.roots[b]) = Found(blk.kv[b][k])

\* C9: in the block workload (inserts of fresh keys, updates of live keys with
\* any value, deletes of live keys, each but the first of its block followed by
\* the retraction of the root held before it) no call returns an error, Get
\* returns the value of every live key after each block, and at the end every
\* block's root reads as that block's map.
C9_BlockWorkload == ~blk.err /\ CheckOne /\ CheckAll

\* the same checks for the runs in which no update wrote the value its key
\* already had
C9_DifferentValues == ~blk.same => (~blk.err /\ CheckOne /\ CheckAll)

C11_SameLeafSurvivesRetraction ==
    scen.step = 3 => GetFromRoot(tree, scen.k1, scen.r3) = Found(scen.v)

C11_Witness ==
    /\ scen.step = 3
    /\ last.op = "RemovePath"
    /\ last.err = NoErr
    /\ scen.r2 # placeholder
    /\ scen.r3 # scen.r1
    /\ prev.nodes[digestLeaf(path(scen.k1), digest(scen.v))[1]].count = 2
    /\ nodes[digestLeaf(path(scen.k1), digest(scen.v))[1]].count = 1
    /\ prev.values[digest(<<path(scen.k1), digest(scen.v)>>)].count = 2
    /\ values[digest(<<path(scen.k1), digest(scen.v)>>)].count = 1
    /\ GetFromRoot(tree, scen.k1, scen.r3) = Found(scen.v)

\* C12: the proof returned by ProveForRoot(k, r) for a root r returned by
\* Update or Delete verifies for (r, k, v) exactly when GetFromRoot(k, r) = v,
\* the default value standing for the absence of k.
C12_ProofSoundness ==
    (last.op = "ProveForRoot")
    => (/\ last.err = NoErr
        /\ \A v \in Values \cup {defaultValue} :
              VerifyProof(last.ret, last.root, last.key, v)
              <=> GetFromRoot(tree, last.key, last.root) = Found(v))

C12_Witness ==
    /\ last.op = "ProveForRoot"
    /\ last.err = NoErr
    /\ last.root # root
    /\ EndsAtOtherLeaf(tree, last.key, last.root)
    /\ last.ret.NonMembershipLeafData # Nil
    /\ Len(last.ret.SideNodes) >= 2
    /\ VerifyProof(last.ret, last.root, last.key, defaultValue)
    /\ \E k \in Keys :
          /\ m[k] # defaultValue
          /\ VerifyProof(ProveForRoot(tree, k, root).proof, root, k, m[k])

\* C13: an Update or Delete that returns an error leaves the tree's root as
\* it was before the call.
C13_FailedMutationKeepsRoot ==
    (last.op \in {"Update", "Delete"} /\ last.err # NoErr) => root = prev.root

\* the delete walk fails on a missing sibling after a traversal that succeeded
C13_Witness ==
    /\ last.op = "Delete"
    /\ last.err = InvalidKeyError
    /\ sideNodesForRoot(Before, path(last.key), prev.root, FALSE).err = NoErr
    /\ prev.root # placeholder
    /\ root = prev.root

\* the digests met on the way down from the digest d along the path p, from
\* level i on, read off the digests
RECURSIVE Descent(_, _, _)
Descent(d, p, i) ==
    IF d = placeholder THEN {}
    ELSE IF isLeaf(d[1]) \/ i >= depth THEN {d}
    ELSE {d} \cup Descent(parseNode(d[1])[IF getBitAtFromMSB(p, i) = right THEN 2 ELSE 1],
                          p, i + 1)

\* the leaves of key's own path met on the way down from r
OwnLeaves(key, r) ==
    {d \in Descent(r, path(key), 0) : isLeaf(d[1]) /\ parseLeaf(d[1])[1] = path(key)}

\* C14: GetFromRoot(k, r) returns the default value and no error when a node on
\* the way down from r along path(k) is missing from the Node Store; it returns
\* an error only when the way down is whole and ends at k's leaf, whose value
\* is missing from the Value Store.
C14_MissingNodeReadsAsDefault ==
    (last.op = "GetFromRoot")
    => (/\ ~(Descent(last.root, path(last.key), 0) \subseteq DOMAIN nodes)
           => (last.err = NoErr /\ last.value = defaultValue)
        /\ last.err # NoErr
           => (/\ Descent(last.root, path(last.key), 0) \subseteq DOMAIN nodes
               /\ \E d \in OwnLeaves(last.key, last.root) :
                     digest(parseLeaf(d[1])[3]) \notin DOMAIN values))

\* the key read was live under the root, whose root node is in the store
C14_Witness ==
    /\ last.op = "GetFromRoot"
    /\ last.root \in DOMAIN nodes
    /\ ~(Descent(last.root, path(last.key), 0) \subseteq DOMAIN nodes)
    /\ \E h \in hist : h.root = last.root /\ h.m[last.key] # defaultValue
    /\ last.err = NoErr
    /\ last.value = defaultValue

\* the other case: the way down is whole, the value of the key's leaf is missing
C14_ValueMissing ==
    /\ last.op = "GetFromRoot"
    /\ last.err = InvalidKeyError
    /\ Descent(last.root, path(last.key), 0) \subseteq DOMAIN nodes
    /\ OwnLeaves(last.key, last.root) # {}

\* C15: in a SimpleMap a key is present exactly when the Puts since it was
\* last absent outnumber the Deletes that succeeded since then; every entry
\* has a count of at least 1; Has tells the presence and Get succeeds on a
\* present key; Get and Delete on an absent key return InvalidKeyError and
\* leave the map as it was.
C15_SimpleMapCounts ==
    /\ \A x \in StoreKeys : (x \in DOMAIN values) <=> (cnt.puts[x] > cnt.dels[x])
    /\ \A x \in DOMAIN values : values[x].count >= 1
    /\ last.op = "values.Has" => (last.ret <=> last.key \in DOMAIN values)
    /\ last.op = "values.Get" => (last.err = NoErr <=> last.key \in DOMAIN values)
    /\ (last.op \in {"values.Get", "values.Delete"} /\ last.key \notin DOMAIN prev.values)
       => (last.err = InvalidKeyError /\ values = prev.values)

\* the store before holds nothing that the store after lacks or counts lower
KeepsEntries(before, after) ==
    \A x \in DOMAIN before : x \in DOMAIN after /\ after[x].count >= before[x].count

NonRetracting ==
    {"Update", "Delete", "UpdateForRoot", "DeleteForRoot",
     "GetFromRoot", "ProveForRoot", "ProveUpdatableForRoot"}

\* C16: Update, Delete, UpdateForRoot, DeleteForRoot, the reads and the proofs
\* remove no entry of the Node Store or the Value Store and lower no reference
\* count; Delete leaves the leaf and the value of the deleted key in place.
C16_OnlyRetractionRemoves ==
    (last.op \in NonRetracting)
    => (KeepsEntries(prev.nodes, nodes) /\ KeepsEntries(prev.values, values))

C16_Witness ==
    /\ last.op = "Delete"
    /\ last.err = NoErr
    /\ prev.m[last.key] # defaultValue
    /\ root # prev.root
    /\ root # placeholder
    /\ digestLeaf(path(last.key), digest(prev.m[last.key]))[1] \in DOMAIN nodes
    /\ digest(<<path(last.key), digest(prev.m[last.key])>>) \in DOMAIN values
    /\ Get(tree, last.key) = Found(defaultValue)

RootKeeping ==
    {"UpdateForRoot", "DeleteForRoot", "GetFromRoot", "ProveForRoot",
     "ProveUpdatableForRoot", "RemovePath", "RemovePathForRoot", "RemovePathsForRoot"}

\* C17: UpdateForRoot, DeleteForRoot, GetFromRoot, the proofs and the three
\* retractions leave the tree's root as it was, whatever root they are given
\* and whether or not they return an error; the root moves in Update and
\* Delete only.
C17_OnlyUpdateMovesRoot ==
    /\ last.op \in RootKeeping => root = prev.root
    /\ root # prev.root => last.op \in {"Update", "Delete"}

C17_Witness ==
    /\ last.op = "UpdateForRoot"
    /\ last.err = NoErr
    /\ last.root # root
    /\ last.root # placeholder
    /\ last.ret # root
    /\ last.ret # last.root
    /\ root = prev.root

\* the internal nodes of the tree under the digest d
InternalNodes(d) == {n \in TreeNodes(d) : ~isLeaf(n[1])}

IsLeafDigest(d) == d # placeholder /\ isLeaf(d[1])

\* no internal node under d has two placeholder children, or a placeholder
\* and a leaf
Canonical(d) ==
    \A n \in InternalNodes(d) :
        /\ ~(parseNode(n[1])[1] = placeholder /\ parseNode(n[1])[2] = placeholder)
        /\ ~(parseNode(n[1])[1] = placeholder /\ IsLeafDigest(parseNode(n[1])[2]))
        /\ ~(parseNode(n[1])[2] = placeholder /\ IsLeafDigest(parseNode(n[1])[1]))

\* C18: every root returned by Update or Delete is the root of a tree in
\* canonical shape, and the root of a tree of one key is that key's leaf digest.
C18_CanonicalShape ==
    \A h \in hist :
        /\ Canonical(h.root)
        /\ \A k \in Keys :
              Live(h.m) = {k} => h.root = digestLeaf(path(k), digest(h.m[k]))[1]

\* a Delete lets the last leaf climb from below two internal nodes to the root
C18_Witness ==
    /\ last.op = "Delete"
    /\ last.err = NoErr
    /\ Cardinality(Live(prev.m)) = 2
    /\ Cardinality(InternalNodes(prev.root)) >= 2
    /\ \E k \in Keys : Live(m) = {k} /\ root = digestLeaf(path(k), digest(m[k]))[1]
    /\ \A h \in hist : Canonical(h.root)

\* the store with the count of every entry of D one lower, the entries whose
\* count was 1 gone
Decremented(store, D) ==
    [x \in {y \in DOMAIN store : y \notin D \/ store[y].count # 1} |->
        IF x \in D THEN [data |-> store[x].data, count |-> store[x].count - 1]
        ELSE store[x]]

\* the leaves of other keys met on the way down from r along key's path
OtherLeaves(key, r) ==
    {d \in Descent(r, path(key), 0) : isLeaf(d[1]) /\ parseLeaf(d[1])[1] # path(key)}

\* the nodes that RemovePath(key, removeRoot, keepRoot) is to decrement, and
\* the Value Store keys
PathNodesToRemove(key, removeRoot, keepRoot) ==
    (Descent(removeRoot, path(key), 0) \ Descent(keepRoot, path(key), 0))
        \ OtherLeaves(key, removeRoot)

ValuesToRemove(key, removeRoot, keepRoot) ==
    {digest(parseLeaf(d[1])[3]) :
        d \in OwnLeaves(key, removeRoot) \ Descent(keepRoot, path(key), 0)}

\* C19: a RemovePath(k, removeRoot, keepRoot) that returns no error lowers by
\* one the count of each node on removeRoot's path for k that is not on
\* keepRoot's path for k and is not the leaf of another key, lowers the count of
\* k's value when removeRoot's path ends at k's leaf and that leaf is not on
\* keepRoot's path, and changes nothing else in the stores.
C19_RemovePathExactEffect ==
    (last.op = "RemovePath" /\ last.err = NoErr)
    => (/\ nodes = Decremented(prev.nodes,
                               PathNodesToRemove(last.key, last.root, last.keep))
        /\ values = Decremented(prev.values,
                                ValuesToRemove(last.key, last.root, last.keep)))

\* the two paths share the key's leaf and differ above it, and removeRoot's
\* path has a node of its own that is stored twice and one that is stored once
C19_Witness ==
    /\ last.op = "RemovePath"
    /\ last.err = NoErr
    /\ OwnLeaves(last.key, last.root) # {}
    /\ OwnLeaves(last.key, last.root) \subseteq Descent(last.keep, path(last.key), 0)
    /\ PathNodesToRemove(last.key, last.root, last.keep) # {}
    /\ DOMAIN nodes # DOMAIN prev.nodes
    /\ values = prev.values
    /\ nodes = Decremented(prev.nodes, PathNodesToRemove(last.key, last.root, last.keep))

Retractions == {"RemovePath", "RemovePathForRoot", "RemovePathsForRoot"}

\* the key arguments of the last call, a retraction
ArgKeys ==
    IF last.op = "RemovePathsForRoot" THEN {last.keys[i] : i \in 1..Len(last.keys)}
    ELSE {last.key}

ArgPaths == {path(k) : k \in ArgKeys}

\* the node entry of the leaf d and the entry of its value are as before the call
LeafUntouched(d) ==
    /\ d \in DOMAIN nodes
    /\ nodes[d] = prev.nodes[d]
    /\ digest(parseLeaf(d[1])[3]) \in DOMAIN prev.values
       => /\ digest(parseLeaf(d[1])[3]) \in DOMAIN values
          /\ values[digest(parseLeaf(d[1])[3])] = prev.values[digest(parseLeaf(d[1])[3])]

\* the leaves of other keys at which the traversals for the key arguments end,
\* in the stores before the call
LeavesOfOthers ==
    UNION {OtherLeaves(k, last.root) :
             k \in {x \in ArgKeys : Descent(last.root, path(x), 0) \subseteq DOMAIN prev.nodes}}

\* no value of a key that is not a key argument has a lower count than before
OtherValuesKept ==
    \A x \in DOMAIN prev.values :
        x[1][1] \notin ArgPaths
        => (x \in DOMAIN values /\ values[x].count >= prev.values[x].count)

\* C20: a retraction whose traversal for a key argument ends at the leaf of
\* another key leaves that leaf's node entry and value entry as they were, and
\* no retraction lowers the count of a value of a key that is not a key argument.
C20_OtherLeafUntouched ==
    (last.op \in Retractions)
    => (/\ \A d \in LeavesOfOthers : LeafUntouched(d)
        /\ OtherValuesKept)

\* C20 as amended: the leaf of another key is left as it was unless that key
\* is itself among the keys given to RemovePathsForRoot.
C20_OtherLeafUntouchedUnlessArgument ==
    (last.op \in Retractions)
    => (/\ \A d \in LeavesOfOthers :
              parseLeaf(d[1])[1] \notin ArgPaths => LeafUntouched(d)
        /\ OtherValuesKept)

\* RemovePathsForRoot of two keys: the first ends at the leaf of a key not
\* given, the second has its own leaf removed
C20_Witness ==
    /\ last.op = "RemovePathsForRoot"
    /\ last.err = NoErr
    /\ Len(last.keys) = 2
    /\ \E d \in OtherLeaves(last.keys[1], last.root) :
          /\ Descent(last.root, path(last.keys[1]), 0) \subseteq DOMAIN prev.nodes
          /\ parseLeaf(d[1])[1] \notin ArgPaths
          /\ LeafUntouched(d)
          /\ digest(parseLeaf(d[1])[3]) \in DOMAIN values
    /\ \E d \in OwnLeaves(last.keys[2], last.root) :
          d \in DOMAIN prev.nodes /\ d \notin DOMAIN nodes
    /\ DOMAIN values # DOMAIN prev.values

\* the internal nodes on the paths of the key arguments under the root of the
\* last call, the leaves of the key arguments, and the Value Store keys of
\* these leaves
ArgInternalNodes ==
    UNION {{d \in Descent(last.root, path(k), 0) : ~isLeaf(d[1])} : k \in ArgKeys}

ArgOwnLeaves == UNION {OwnLeaves(k, last.root) : k \in ArgKeys}

ArgValueKeys == {digest(parseLeaf(d[1])[3]) : d \in ArgOwnLeaves}

\* C21: RemovePathsForRoot(keys, root) on a root whose tree is whole in the
\* stores lowers by one the count of each internal node on the path of at least
\* one of the keys, of the leaf of each key whose path ends at its own leaf and
\* of that leaf's value, and of nothing else.
C21_RemovePathsExactEffect ==
    (last.op = "RemovePathsForRoot" /\ Intact(Before, last.root))
    => (/\ nodes = Decremented(prev.nodes, ArgInternalNodes \cup ArgOwnLeaves)
        /\ values = Decremented(prev.values, ArgValueKeys))

\* the siblings of the nodes met on the way down from the digest d along the
\* path p, from level i on, the topmost first, read off the digests
RECURSIVE SiblingsDown(_, _, _)
SiblingsDown(d, p, i) ==
    IF d = placeholder \/ isLeaf(d[1]) \/ i >= depth THEN <<>>
    ELSE IF getBitAtFromMSB(p, i) = right
    THEN <<parseNode(d[1])[1]>> \o SiblingsDown(parseNode(d[1])[2], p, i + 1)
    ELSE <<parseNode(d[1])[2]>> \o SiblingsDown(parseNode(d[1])[1], p, i + 1)

\* the sequence s is the sequence down, the last element first
BottomFirst(s, down) ==
    /\ Len(s) = Len(down)
    /\ \A i \in 1..Len(s) : s[i] = down[Len(down) + 1 - i]

\* C22: the proof of ProveForRoot(k, r) for a root r returned by Update or
\* Delete has as SideNodes the siblings along path(k) under r, the lowest
\* first, and has NonMembershipLeafData set, to the leaf at which the way down
\* ends, exactly when that leaf is the leaf of another key.
C22_ProofShape ==
    (last.op = "ProveForRoot")
    => (/\ last.err = NoErr
        /\ BottomFirst(last.ret.SideNodes, SiblingsDown(last.root, path(last.key), 0))
        /\ \A d \in OtherLeaves(last.key, last.root) : last.ret.NonMembershipLeafData = d[1]
        /\ OtherLeaves(last.key, last.root) = {} => last.ret.NonMembershipLeafData = Nil)

\* the three ends of the way down are met: the leaf of another key below two
\* different siblings, one of them a placeholder, and for other keys under
\* the same root the key's own leaf and a placeholder
C22_Witness ==
    /\ last.op = "ProveForRoot"
    /\ last.err = NoErr
    /\ OtherLeaves(last.key, last.root) # {}
    /\ last.ret.NonMembershipLeafData # Nil
    /\ Len(last.ret.SideNodes) >= 2
    /\ last.ret.SideNodes[1] # placeholder
    /\ last.ret.SideNodes[Len(last.ret.SideNodes)] = placeholder
    /\ \E k \in Keys :
          /\ OwnLeaves(k, last.root) # {}
          /\ ProveForRoot(tree, k, last.root).proof.NonMembershipLeafData = Nil
          /\ ProveForRoot(tree, k, last.root).proof.SideNodes = last.ret.SideNodes
    /\ \E k \in Keys :
          /\ Descent(last.root, path(k), 0) = {d \in Descent(last.root, path(k), 0) : ~isLeaf(d[1])}
          /\ ProveForRoot(tree, k, last.root).proof.NonMembershipLeafData = Nil

\* C23: for a root r returned by Update or Delete, a key k absent under r and
\* a value v other than the default value, UpdateForRoot(k, v, r) returns a
\* root r2 without error and DeleteForRoot(k, r2) returns r without error.
C23_DeleteUndoesInsert ==
    (/\ scen.step >= 1
     /\ GetFromRoot(tree, scen.k1, scen.r1) = Found(defaultValue))
    => (/\ last.err = NoErr
        /\ scen.step = 1 => (last.ret = scen.r2 /\ scen.r2 # scen.r1)
        /\ scen.step = 2 => (last.ret = scen.r3 /\ scen.r3 = scen.r1))

\* the key was put below the leaf of another key, two levels or more further
\* down than that leaf was, and the leaf came back to its place
C23_Witness ==
    /\ scen.step = 2
    /\ last.op = "DeleteForRoot"
    /\ last.err = NoErr
    /\ scen.r1 # root
    /\ \E d \in OtherLeaves(scen.k1, scen.r1) :
          /\ Cardinality(Descent(scen.r2, path(scen.k1), 0))
                >= Cardinality(Descent(scen.r1, path(scen.k1), 0)) + 2
          /\ d \in TreeNodes(scen.r3)
    /\ OwnLeaves(scen.k1, scen.r2) # {}
    /\ GetFromRoot(tree, scen.k1, scen.r2) = Found(scen.v)
    /\ scen.r3 = scen.r1

\* UpdateForRoot at a placeholder below a sibling node, undone by DeleteForRoot
C23_AtPlaceholder ==
    /\ scen.step = 2
    /\ last.err = NoErr
    /\ scen.r1 # placeholder
    /\ OtherLeaves(scen.k1, scen.r1) = {}
    /\ OwnLeaves(scen.k1, scen.r1) = {}
    /\ scen.r3 = scen.r1

\* the leaves in the Node Store N, and the Value Store key of the leaf d
StoredLeaves(N) == {d \in DOMAIN N : isLeaf(N[d].data)}

ValueKeyOf(d) == digest(parseLeaf(d[1])[3])

\* the leaf that belongs to the Value Store key x, the digest of a path and a
\* value hash
LeafOf(x) == digestLeaf(x[1][1], x[1][2])[1]

\* C24: in every state reached by Update, Delete, RemovePath,
\* RemovePathForRoot and RemovePathsForRoot, a leaf is in the Node Store
\* exactly when the entry of its path and value hash is in the Value Store,
\* and the two have the same reference count.
C24_LeafAndValueInLockstep ==
    /\ \A d \in StoredLeaves(nodes) :
          /\ ValueKeyOf(d) \in DOMAIN values
          /\ values[ValueKeyOf(d)].count = nodes[d].count
    /\ \A x \in DOMAIN values :
          /\ LeafOf(x) \in DOMAIN nodes
          /\ nodes[LeafOf(x)].count = values[x].count

\* a retraction took a leaf stored twice and its value to one reference each
C24_Witness ==
    /\ last.op \in Retractions
    /\ last.err = NoErr
    /\ \E d \in StoredLeaves(nodes) :
          /\ prev.nodes[d].count = 2
          /\ prev.values[ValueKeyOf(d)].count = 2
          /\ nodes[d].count = 1
          /\ values[ValueKeyOf(d)].count = 1

\* a retraction took a leaf and its value out of the stores
C24_LeafAndValueGone ==
    /\ last.op \in Retractions
    /\ last.err = NoErr
    /\ \E d \in StoredLeaves(prev.nodes) :
          /\ d \notin DOMAIN nodes
          /\ ValueKeyOf(d) \in DOMAIN prev.values
          /\ ValueKeyOf(d) \notin DOMAIN values
    /\ StoredLeaves(nodes) # {}

\* C25: RemovePath(k, r, r) on a root r whose tree is whole in the stores
\* returns no error and leaves the Node Store and the Value Store as they
\* were, entries and reference counts.
C25_RemovePathEqualRootsIsNoOp ==
    (/\ last.op = "RemovePath"
     /\ last.root = last.keep
     /\ Intact(Before, last.root))
    => (/\ last.err = NoErr
        /\ nodes = prev.nodes
        /\ values = prev.values)

\* the root given twice is not the tree's root, and the key's path under it
\* holds a node and the key's leaf
C25_Witness ==
    /\ last.op = "RemovePath"
    /\ last.root = last.keep
    /\ last.root # root
    /\ Intact(Before, last.root)
    /\ OwnLeaves(last.key, last.root) # {}
    /\ Cardinality(Descent(last.root, path(last.key), 0)) >= 2
    /\ last.err = NoErr
    /\ nodes = prev.nodes
    /\ values = prev.values

\* no key is listed twice in the key list of the last call
DuplicateFree == \A i, j \in 1..Len(last.keys) : last.keys[i] = last.keys[j] => i = j

\* the stores and the error that RemovePathsForRoot leaves when called before
\* the last call with the keys in the order o
Outcome(o) == RemovePathsForRoot(Before, o, last.root)

\* C26: RemovePathsForRoot on a root whose tree is whole in the stores and a
\* list of keys without repetition returns no error, and returns the same
\* error and leaves the same Node Store and Value Store whatever the order of
\* the keys in the list.
C26_KeyOrderIndependent ==
    (/\ last.op = "RemovePathsForRoot"
     /\ DuplicateFree
     /\ Intact(Before, last.root))
    => (/\ last.err = NoErr
        /\ \A o \in Orders(ArgKeys) :
              /\ Outcome(o).err = last.err
              /\ Outcome(o).nodes = nodes
              /\ Outcome(o).values = values)

====
